---- MODULE Spec2Model ----
(***************************************************************************)
(* A model of py-scripts/get_evpn2.py: the per-device gNMI fetch           *)
(* (SrlDevice._get_gnmi_info), the EVPN and VPN record extraction          *)
(* (get_bgp_evpn_info, get_bgp_vpn_info) and the per-device join of main.  *)
(*                                                                         *)
(* Encoding of Python values.  A dict is a record that carries every key   *)
(* the code reads; a key holds None (<<>>) when the dict lacks it and      *)
(* Some(v) (<<v>>) when the dict maps it to v.  d[k] raises KeyError       *)
(* exactly when ~Has(d.k).  Python's None is likewise None.  A list is a   *)
(* sequence.                                                               *)
(***************************************************************************)
EXTENDS Integers, Sequences, FiniteSets, TLC

VARIABLES
    router_info,    \* the loaded roster file: routers, username, password, gnmi_port, skip_verify
    pc,             \* position of the run
    level,          \* level of logging.getLogger('pygnmi')
    level_at_call,  \* history: the level when the current _get_gnmi_info call was entered
    sessions,       \* the gNMI endpoint's view: every connection attempt, in order
    gnmi_path,      \* the path of the current query: EVPN_PATH or VPN_PATH
    result,         \* local of _get_gnmi_info: None or Some(response)
    info,           \* local of _get_gnmi_info / get_bgp_*_info: list of raw network instances
    self,           \* the SrlDevice under construction
    srl_devices,    \* main: devices constructed so far
    joined,         \* main: number of devices the join loop has handled
    rows,           \* main: joined rows so far
    table           \* what the run displays: None until the report, then Some(rows)

vars == <<router_info, pc, level, level_at_call, sessions, gnmi_path, result,
          info, self, srl_devices, joined, rows, table>>

----------------------------------------------------------------------------
(* Bounds of the model *)

MaxDevices == 2
MaxNotifications == 2
MaxUpdates == 2
MaxInstances == 2
MaxEntries == 2
MaxVpnInstances == 1
MaxVpnEntries == 1
MaxRecords == 2

----------------------------------------------------------------------------
(* Python values *)

None == <<>>
Some(v) == <<v>>
Has(opt) == opt # None
Val(opt) == opt[1]

Range(s) == {s[n] : n \in 1..Len(s)}

RECURSIVE SeqsOfLen(_, _)
SeqsOfLen(S, n) ==
    IF n = 0 THEN {<<>>}
    ELSE {Append(s, x) : s \in SeqsOfLen(S, n - 1), x \in S}

SeqsUpTo(S, n) == UNION {SeqsOfLen(S, k) : k \in 0..n}

----------------------------------------------------------------------------
(* Program constants *)

LOGGING_LEVEL_CRITICAL == 50
LOGGING_LEVEL_WARNING == 30
LogLevels == {0, 10, 20, 30, 40, 50}

DEFAULT_MODEL == "ixrd3"
DEFAULT_RELEASE == "21.6.4"

EVPN_PATH == "network-instance/protocols/bgp-evpn/bgp-instance"
VPN_PATH == "network-instance/protocols/bgp-vpn/bgp-instance"

NO_STATE == "no state"

----------------------------------------------------------------------------
(* _get_gnmi_info, lines 111-124: decoding the response envelope.          *)
(* The loops append to info as they go; a KeyError ends them and leaves    *)
(* info as it stands.                                                      *)

RECURSIVE DecodeUpdates(_, _)
DecodeUpdates(updates, acc) ==
    IF updates = <<>> THEN [info |-> acc, raised |-> FALSE]
    ELSE LET update == Head(updates) IN
         IF ~Has(update.val) THEN [info |-> acc, raised |-> TRUE]
         ELSE LET val == Val(update.val) IN
              DecodeUpdates(Tail(updates),
                  IF Has(val.network_instance)
                  THEN acc \o Val(val.network_instance)
                  ELSE acc)

RECURSIVE DecodeNotifications(_, _)
DecodeNotifications(notifications, acc) ==
    IF notifications = <<>> THEN [info |-> acc, raised |-> FALSE]
    ELSE LET notification == Head(notifications) IN
         IF ~Has(notification.update) THEN [info |-> acc, raised |-> TRUE]
         ELSE LET r == DecodeUpdates(Val(notification.update), acc) IN
              IF r.raised THEN r
              ELSE DecodeNotifications(Tail(notifications), r.info)

DecodeResult(res) ==
    IF ~Has(res) THEN [info |-> <<>>, raised |-> FALSE]
    ELSE IF ~Has(Val(res).notification) THEN [info |-> <<>>, raised |-> TRUE]
    ELSE DecodeNotifications(Val(Val(res).notification), <<>>)

----------------------------------------------------------------------------
(* get_bgp_evpn_info, lines 136-143 *)

BgpEvpn(network_instance, id, admin_state, vxlan_interface, evi, ecmp, oper_state) ==
    [network_instance |-> network_instance, id |-> id, admin_state |-> admin_state,
     vxlan_interface |-> vxlan_interface, evi |-> evi, ecmp |-> ecmp,
     oper_state |-> oper_state]

EvpnOperState_DownByDefault(bgp_instance) ==
    IF ~Has(bgp_instance.oper_state) THEN "down" ELSE Val(bgp_instance.oper_state)

EvpnOperState(bgp_instance) ==
    IF ~Has(bgp_instance.oper_state) THEN NO_STATE ELSE Val(bgp_instance.oper_state)

EvpnEntryRaises(network_instance, bgp_instance) ==
    \/ ~Has(network_instance.name)
    \/ ~Has(bgp_instance.id)
    \/ ~Has(bgp_instance.admin_state)
    \/ ~Has(bgp_instance.vxlan_interface)
    \/ ~Has(bgp_instance.evi)
    \/ ~Has(bgp_instance.ecmp)

RECURSIVE EvpnEntries(_, _, _)
EvpnEntries(network_instance, bgp_instances, acc) ==
    IF bgp_instances = <<>> THEN [recs |-> acc, raised |-> FALSE]
    ELSE LET b == Head(bgp_instances) IN
         IF EvpnEntryRaises(network_instance, b) THEN [recs |-> acc, raised |-> TRUE]
         ELSE EvpnEntries(network_instance, Tail(bgp_instances),
                  Append(acc, BgpEvpn(Val(network_instance.name), Val(b.id),
                                      Val(b.admin_state), Val(b.vxlan_interface),
                                      Val(b.evi), Val(b.ecmp), EvpnOperState(b))))

\* network_instance['protocols']['bgp-evpn']['srl_nokia-bgp-evpn:bgp-instance']
EvpnBranchRaises(network_instance) ==
    \/ ~Has(network_instance.protocols)
    \/ ~Has(Val(network_instance.protocols).bgp_evpn)
    \/ ~Has(Val(Val(network_instance.protocols).bgp_evpn).bgp_instance)

EvpnBranch(network_instance) ==
    Val(Val(Val(network_instance.protocols).bgp_evpn).bgp_instance)

RECURSIVE ExtractEvpn(_, _)
ExtractEvpn(network_instances, acc) ==
    IF network_instances = <<>> THEN [recs |-> acc, raised |-> FALSE]
    ELSE LET ni == Head(network_instances) IN
         IF EvpnBranchRaises(ni) THEN [recs |-> acc, raised |-> TRUE]
         ELSE LET r == EvpnEntries(ni, EvpnBranch(ni), acc) IN
              IF r.raised THEN r ELSE ExtractEvpn(Tail(network_instances), r.recs)

----------------------------------------------------------------------------
(* get_bgp_vpn_info, lines 153-157 *)

BgpVpn(network_instance, id, rd, export_rt, import_rt) ==
    [network_instance |-> network_instance, id |-> id, rd |-> rd,
     export_rt |-> export_rt, import_rt |-> import_rt]

\* bgp_instance.get('route-distinguisher', {}).get('rd')
GetRd(bgp_instance) ==
    IF Has(bgp_instance.route_distinguisher)
    THEN Val(bgp_instance.route_distinguisher).rd ELSE None

\* bgp_instance.get('route-target', {}).get('export-rt')
GetExportRt(bgp_instance) ==
    IF Has(bgp_instance.route_target)
    THEN Val(bgp_instance.route_target).export_rt ELSE None

\* bgp_instance.get('route-target', {}).get('import-rt')
GetImportRt(bgp_instance) ==
    IF Has(bgp_instance.route_target)
    THEN Val(bgp_instance.route_target).import_rt ELSE None

VpnRecord_TargetsSwapped(name, bgp_instance) ==
    BgpVpn(name, Val(bgp_instance.id), GetRd(bgp_instance),
           GetImportRt(bgp_instance), GetExportRt(bgp_instance))

VpnRecord(name, bgp_instance) ==
    BgpVpn(name, Val(bgp_instance.id), GetRd(bgp_instance),
           GetExportRt(bgp_instance), GetImportRt(bgp_instance))

VpnEntryRaises(network_instance, bgp_instance) ==
    \/ ~Has(network_instance.name)
    \/ ~Has(bgp_instance.id)

RECURSIVE VpnEntries(_, _, _)
VpnEntries(network_instance, bgp_instances, acc) ==
    IF bgp_instances = <<>> THEN [recs |-> acc, raised |-> FALSE]
    ELSE LET b == Head(bgp_instances) IN
         IF VpnEntryRaises(network_instance, b) THEN [recs |-> acc, raised |-> TRUE]
         ELSE VpnEntries(network_instance, Tail(bgp_instances),
                  Append(acc, VpnRecord(Val(network_instance.name), b)))

\* network_instance['protocols']['srl_nokia-bgp-vpn:bgp-vpn']['bgp-instance']
VpnBranchRaises(network_instance) ==
    \/ ~Has(network_instance.protocols)
    \/ ~Has(Val(network_instance.protocols).bgp_vpn)
    \/ ~Has(Val(Val(network_instance.protocols).bgp_vpn).bgp_instance)

VpnBranch(network_instance) ==
    Val(Val(Val(network_instance.protocols).bgp_vpn).bgp_instance)

RECURSIVE ExtractVpn(_, _)
ExtractVpn(network_instances, acc) ==
    IF network_instances = <<>> THEN [recs |-> acc, raised |-> FALSE]
    ELSE LET ni == Head(network_instances) IN
         IF VpnBranchRaises(ni) THEN [recs |-> acc, raised |-> TRUE]
         ELSE LET r == VpnEntries(ni, VpnBranch(ni), acc) IN
              IF r.raised THEN r ELSE ExtractVpn(Tail(network_instances), r.recs)

----------------------------------------------------------------------------
(* main, lines 202-209: the per-device join.                               *)
(* A Python dict is a sequence of [key, value] pairs in insertion order;   *)
(* storing under a key already there replaces the value in place.          *)

DictHas(d, k) == \E n \in 1..Len(d) : d[n].key = k

DictGet(d, k) == d[CHOOSE n \in 1..Len(d) : d[n].key = k].value

DictPut_FirstWins(d, k, v) ==
    IF DictHas(d, k) THEN d ELSE Append(d, [key |-> k, value |-> v])

DictPut_AlwaysAppend(d, k, v) == Append(d, [key |-> k, value |-> v])

DictPut(d, k, v) ==
    IF DictHas(d, k)
    THEN [n \in 1..Len(d) |-> IF d[n].key = k THEN [key |-> k, value |-> v] ELSE d[n]]
    ELSE Append(d, [key |-> k, value |-> v])

\* {item.network_instance: item for item in items}
RECURSIVE DictByInstance(_, _)
DictByInstance(items, d) ==
    IF items = <<>> THEN d
    ELSE DictByInstance(Tail(items), DictPut(d, Head(items).network_instance, Head(items)))

\* One row of the table; the fields are the table's columns (line 216).
Row(router, key, e, v) ==
    [Router |-> router, Network_instance |-> key, ID |-> e.id,
     EVPN_Admin_state |-> e.admin_state, VXLAN_interface |-> e.vxlan_interface,
     EVI |-> e.evi, ECMP |-> e.ecmp, Oper_state |-> e.oper_state,
     RD |-> v.rd, import_rt |-> v.import_rt, export_rt |-> v.export_rt]

JoinDevice(device) ==
    LET bgp_Evpn_dict == DictByInstance(device.bgp_evpn, <<>>)
        bgp_Vpn_dict == DictByInstance(device.bgp_vpn, <<>>)
        kept == SelectSeq(bgp_Evpn_dict, LAMBDA p : DictHas(bgp_Vpn_dict, p.key))
    IN  [n \in 1..Len(kept) |->
            Row(device.router, kept[n].key, kept[n].value,
                DictGet(bgp_Vpn_dict, kept[n].key))]

----------------------------------------------------------------------------
(* What a device can answer to gc.get (line 105): the response trees.      *)

\* a bgp-instance entry under the bgp-evpn branch
EvpnEntry(id, oper_state) ==
    [id |-> Some(id), admin_state |-> Some("enable"),
     vxlan_interface |-> Some("vxlan1.1"), evi |-> Some(100 + id),
     ecmp |-> Some(8), oper_state |-> oper_state]

EvpnWellFormedEntries ==
    {EvpnEntry(1, None), EvpnEntry(2, Some("up")), EvpnEntry(1, Some("down"))}

\* entries lacking one required field
EvpnDefectiveEntries ==
    LET e == EvpnEntry(1, Some("up")) IN
    {[e EXCEPT !.id = None], [e EXCEPT !.admin_state = None],
     [e EXCEPT !.vxlan_interface = None], [e EXCEPT !.evi = None],
     [e EXCEPT !.ecmp = None]}

\* a bgp-instance entry under the bgp-vpn branch
VpnEntry(id, route_distinguisher, route_target) ==
    [id |-> id, route_distinguisher |-> route_distinguisher,
     route_target |-> route_target]

RdContainers ==
    {None, Some([rd |-> None]), Some([rd |-> Some("10.0.0.1:1")])}

RtContainers ==
    {None} \cup
    {Some([export_rt |-> e, import_rt |-> i]) :
        e \in {None, Some("target:65000:1")}, i \in {None, Some("target:65000:2")}}

VpnWellFormedEntries ==
    {VpnEntry(Some(1), rd, rt) : rd \in RdContainers, rt \in RtContainers}

VpnDefectiveEntries ==
    {VpnEntry(None, Some([rd |-> Some("10.0.0.1:1")]), None)}

\* a network instance holding a bgp-instance list under the given branch
EvpnInstance(name, bgp_instances) ==
    [name |-> name,
     protocols |-> Some([bgp_evpn |-> Some([bgp_instance |-> Some(bgp_instances)]),
                         bgp_vpn |-> None])]

VpnInstance(name, bgp_instances) ==
    [name |-> name,
     protocols |-> Some([bgp_evpn |-> None,
                         bgp_vpn |-> Some([bgp_instance |-> Some(bgp_instances)])])]

\* network instances whose protocol branch is cut at one of its three levels
BranchlessInstances(name) ==
    {[name |-> name, protocols |-> None],
     [name |-> name, protocols |-> Some([bgp_evpn |-> None, bgp_vpn |-> None])],
     [name |-> name,
      protocols |-> Some([bgp_evpn |-> Some([bgp_instance |-> None]),
                          bgp_vpn |-> Some([bgp_instance |-> None])])]}

\* update['val'] with the network-instance collection
UpdateOf(network_instances) ==
    [val |-> Some([network_instance |-> Some(network_instances)])]

\* a response with one notification holding the given updates
ResponseOf(updates) ==
    [notification |-> Some(<<[update |-> Some(updates)]>>)]

Envelope(network_instances) == ResponseOf(<<UpdateOf(network_instances)>>)

\* responses whose envelope is malformed: no notification list, no update
\* list, and an update without val after one that carries an instance
MalformedResponses(network_instance) ==
    {[notification |-> None],
     [notification |-> Some(<<[update |-> None]>>)],
     ResponseOf(<<UpdateOf(<<network_instance>>), [val |-> None]>>)}

\* The answers the whole-run specification draws from.
RunEvpnResponses ==
    LET d1 == EvpnInstance(Some("default"), <<EvpnEntry(1, None)>>)
        m2 == EvpnInstance(Some("mgmt"), <<EvpnEntry(2, Some("up"))>>)
    IN  {Envelope(<<>>), Envelope(<<d1>>), Envelope(<<d1, m2>>)}
        \cup {Envelope(<<EvpnInstance(Some("default"), <<e>>)>>) : e \in EvpnDefectiveEntries}
        \cup {Envelope(<<EvpnInstance(None, <<EvpnEntry(1, None)>>)>>)}
        \cup {Envelope(<<ni>>) : ni \in BranchlessInstances(Some("default"))}
        \cup MalformedResponses(d1)

RunVpnResponses ==
    LET d1 == VpnInstance(Some("default"),
                  <<VpnEntry(Some(1), None,
                        Some([export_rt |-> Some("target:65000:1"),
                              import_rt |-> Some("target:65000:2")]))>>)
        v2 == VpnInstance(Some("vrf1"),
                  <<VpnEntry(Some(1), Some([rd |-> Some("10.0.0.1:1")]), None)>>)
    IN  {Envelope(<<>>), Envelope(<<d1>>), Envelope(<<d1, v2>>)}
        \cup {Envelope(<<VpnInstance(Some("default"), <<e>>)>>) : e \in VpnDefectiveEntries}
        \cup {Envelope(<<VpnInstance(None, <<VpnEntry(Some(1), None, None)>>)>>)}
        \cup {Envelope(<<ni>>) : ni \in BranchlessInstances(Some("default"))}
        \cup MalformedResponses(d1)

RunResponses(path) == IF path = EVPN_PATH THEN RunEvpnResponses ELSE RunVpnResponses

----------------------------------------------------------------------------
(* The roster file (main, lines 186-191) *)

RouterName(n) == "leaf" \o ToString(n)

Rosters == {[n \in 1..k |-> RouterName(n)] : k \in 0..MaxDevices}

RouterInfos ==
    [routers : Rosters, username : {"admin"}, password : {"NokiaSrl1!"},
     gnmi_port : {"57400"}, skip_verify : BOOLEAN]

----------------------------------------------------------------------------
(* The run *)

NoDevice == [router |-> "", port |-> "", username |-> "", password |-> "",
             skip_verify |-> TRUE, model |-> "", release |-> "",
             bgp_evpn |-> <<>>, bgp_vpn |-> <<>>]

Init ==
    /\ router_info \in RouterInfos
    /\ pc = "poll"
    /\ level \in LogLevels
    /\ level_at_call = level
    /\ sessions = <<>>
    /\ gnmi_path = EVPN_PATH
    /\ result = None
    /\ info = <<>>
    /\ self = NoDevice
    /\ srl_devices = <<>>
    /\ joined = 0
    /\ rows = <<>>
    /\ table = None

\* main line 197-198 and SrlDevice.__init__ lines 62-68: the next router of
\* the roster becomes a device; line 69 then calls get_bgp_evpn_info.
NewDevice ==
    /\ pc = "poll"
    /\ Len(srl_devices) < Len(router_info.routers)
    /\ self' = [router |-> router_info.routers[Len(srl_devices) + 1],
                port |-> router_info.gnmi_port,
                username |-> router_info.username,
                password |-> router_info.password,
                skip_verify |-> router_info.skip_verify,
                model |-> DEFAULT_MODEL, release |-> DEFAULT_RELEASE,
                bgp_evpn |-> <<>>, bgp_vpn |-> <<>>]
    /\ gnmi_path' = EVPN_PATH
    /\ pc' = "call"
    /\ UNCHANGED <<router_info, level, level_at_call, sessions, result, info,
                   srl_devices, joined, rows, table>>

\* _get_gnmi_info lines 100-102
FetchBegin ==
    /\ pc = "call"
    /\ info' = <<>>
    /\ level_at_call' = level
    /\ level' = LOGGING_LEVEL_CRITICAL
    /\ result' = None
    /\ pc' = "open"
    /\ UNCHANGED <<router_info, sessions, gnmi_path, self, srl_devices, joined,
                   rows, table>>

\* the session the code asks for at line 104
SessionRequest(status) ==
    [router |-> self.router, port |-> self.port, username |-> self.username,
     password |-> self.password, skip_verify |-> TRUE, path |-> gnmi_path,
     status |-> status, get |-> "none"]

\* line 104: gNMIclient(...).__enter__ succeeds
ConnectOk ==
    /\ pc = "open"
    /\ sessions' = Append(sessions, SessionRequest("open"))
    /\ pc' = "get"
    /\ UNCHANGED <<router_info, level, level_at_call, gnmi_path, result, info,
                   self, srl_devices, joined, rows, table>>

\* line 104 raises; lines 106-107 catch it
ConnectFail ==
    /\ pc = "open"
    /\ sessions' = Append(sessions, SessionRequest("refused"))
    /\ pc' = "finally"
    /\ UNCHANGED <<router_info, level, level_at_call, gnmi_path, result, info,
                   self, srl_devices, joined, rows, table>>

\* line 105: gc.get answers
GetOk ==
    /\ pc = "get"
    /\ \E response \in RunResponses(gnmi_path) : result' = Some(response)
    /\ sessions' = [sessions EXCEPT ![Len(sessions)].get = "ok"]
    /\ pc' = "exit"
    /\ UNCHANGED <<router_info, level, level_at_call, gnmi_path, info, self,
                   srl_devices, joined, rows, table>>

\* line 105 raises: result stays None
GetFail ==
    /\ pc = "get"
    /\ sessions' = [sessions EXCEPT ![Len(sessions)].get = "error"]
    /\ pc' = "exit"
    /\ UNCHANGED <<router_info, level, level_at_call, gnmi_path, result, info,
                   self, srl_devices, joined, rows, table>>

SessionExit_LeftOpen ==
    /\ pc = "exit"
    /\ pc' = "finally"
    /\ UNCHANGED <<router_info, level, level_at_call, sessions, gnmi_path, result,
                   info, self, srl_devices, joined, rows, table>>

\* the with block of line 104 ends, normally or by the exception of line 105:
\* the session is closed
SessionExit ==
    /\ pc = "exit"
    /\ sessions' = [sessions EXCEPT ![Len(sessions)].status = "closed"]
    /\ pc' = "finally"
    /\ UNCHANGED <<router_info, level, level_at_call, gnmi_path, result, info,
                   self, srl_devices, joined, rows, table>>

\* lines 108-109
Finally ==
    /\ pc = "finally"
    /\ level' = LOGGING_LEVEL_WARNING
    /\ pc' = "decode"
    /\ UNCHANGED <<router_info, level_at_call, sessions, gnmi_path, result, info,
                   self, srl_devices, joined, rows, table>>

\* lines 111-124
Decode ==
    /\ pc = "decode"
    /\ info' = DecodeResult(result).info
    /\ pc' = "extract"
    /\ UNCHANGED <<router_info, level, level_at_call, sessions, gnmi_path, result,
                   self, srl_devices, joined, rows, table>>

\* get_bgp_evpn_info lines 136-143 and __init__ line 69; a KeyError is caught
\* nowhere and ends the run
get_bgp_evpn_info ==
    /\ pc = "extract"
    /\ gnmi_path = EVPN_PATH
    /\ LET r == ExtractEvpn(info, <<>>) IN
       IF r.raised
       THEN /\ pc' = "aborted"
            /\ UNCHANGED <<self, gnmi_path>>
       ELSE /\ self' = [self EXCEPT !.bgp_evpn = r.recs]
            /\ gnmi_path' = VPN_PATH
            /\ pc' = "call"
    /\ UNCHANGED <<router_info, level, level_at_call, sessions, result, info,
                   srl_devices, joined, rows, table>>

\* get_bgp_vpn_info lines 153-157, __init__ line 70 and the append of line 198
get_bgp_vpn_info ==
    /\ pc = "extract"
    /\ gnmi_path = VPN_PATH
    /\ LET r == ExtractVpn(info, <<>>) IN
       IF r.raised
       THEN /\ pc' = "aborted"
            /\ UNCHANGED <<self, srl_devices>>
       ELSE /\ self' = [self EXCEPT !.bgp_vpn = r.recs]
            /\ srl_devices' = Append(srl_devices, self')
            /\ pc' = "poll"
    /\ UNCHANGED <<router_info, level, level_at_call, sessions, gnmi_path, result,
                   info, joined, rows, table>>

\* line 200, once the loop of line 197 is through
StartJoin ==
    /\ pc = "poll"
    /\ Len(srl_devices) = Len(router_info.routers)
    /\ rows' = <<>>
    /\ pc' = "join"
    /\ UNCHANGED <<router_info, level, level_at_call, sessions, gnmi_path, result,
                   info, self, srl_devices, joined, table>>

\* lines 201-209, one device
Join ==
    /\ pc = "join"
    /\ joined < Len(srl_devices)
    /\ rows' = rows \o JoinDevice(srl_devices[joined + 1])
    /\ joined' = joined + 1
    /\ UNCHANGED <<router_info, pc, level, level_at_call, sessions, gnmi_path,
                   result, info, self, srl_devices, table>>

\* lines 211-222: "No data to display." or the table of the rows
Report ==
    /\ pc = "join"
    /\ joined = Len(srl_devices)
    /\ table' = Some(rows)
    /\ pc' = "done"
    /\ UNCHANGED <<router_info, level, level_at_call, sessions, gnmi_path, result,
                   info, self, srl_devices, joined, rows>>

Next ==
    \/ NewDevice
    \/ FetchBegin
    \/ ConnectOk
    \/ ConnectFail
    \/ GetOk
    \/ GetFail
    \/ SessionExit
    \/ Finally
    \/ Decode
    \/ get_bgp_evpn_info
    \/ get_bgp_vpn_info
    \/ StartJoin
    \/ Join
    \/ Report

Spec == Init /\ [][Next]_vars

----------------------------------------------------------------------------
(* Specifications of the single steps.  Each starts the run of a           *)
(* one-router roster at the step in question, with the step's input drawn  *)
(* from a wider set than the whole-run specification affords, and takes    *)
(* the run's own actions from there.                                       *)

OneRouterInfo ==
    [routers |-> <<RouterName(1)>>, username |-> "admin", password |-> "NokiaSrl1!",
     gnmi_port |-> "57400", skip_verify |-> TRUE]

Device1(bgp_evpn, bgp_vpn) ==
    [router |-> RouterName(1), port |-> "57400", username |-> "admin",
     password |-> "NokiaSrl1!", skip_verify |-> TRUE, model |-> DEFAULT_MODEL,
     release |-> DEFAULT_RELEASE, bgp_evpn |-> bgp_evpn, bgp_vpn |-> bgp_vpn]

ClosedSession(path) ==
    [router |-> RouterName(1), port |-> "57400", username |-> "admin",
     password |-> "NokiaSrl1!", skip_verify |-> TRUE, path |-> path,
     status |-> "closed", get |-> "ok"]

\* --- the decoding of a response (lines 111-124)

DecodeUpdateKinds ==
    {[val |-> None], [val |-> Some([network_instance |-> None])],
     UpdateOf(<<EvpnInstance(Some("default"), <<EvpnEntry(1, None)>>)>>),
     UpdateOf(<<EvpnInstance(Some("mgmt"), <<EvpnEntry(2, Some("up"))>>)>>)}

DecodeNotificationKinds(maxUpdates) ==
    {[update |-> None]} \cup
    {[update |-> Some(us)] : us \in SeqsUpTo(DecodeUpdateKinds, maxUpdates)}

InitDecode ==
    /\ router_info = OneRouterInfo
    /\ pc = "decode"
    /\ level = LOGGING_LEVEL_WARNING
    /\ level_at_call = LOGGING_LEVEL_WARNING
    /\ sessions = <<ClosedSession(EVPN_PATH)>>
    /\ gnmi_path = EVPN_PATH
    /\ \/ result = Some([notification |-> None])
       \/ \E n \in 0..MaxNotifications :
              \E ns \in [1..n -> DecodeNotificationKinds(MaxUpdates)] :
                  result = Some([notification |-> Some(ns)])
    /\ info = <<>>
    /\ self = Device1(<<>>, <<>>)
    /\ srl_devices = <<>>
    /\ joined = 0
    /\ rows = <<>>
    /\ table = None

NextDecode == Decode

SpecDecode == InitDecode /\ [][NextDecode]_vars

\* --- the EVPN extraction (lines 136-143)

EvpnNetworkInstances ==
    {EvpnInstance(Some("default"), es) :
        es \in SeqsUpTo(EvpnWellFormedEntries \cup {[EvpnEntry(1, Some("up")) EXCEPT !.evi = None]},
                        MaxEntries)}
    \cup {EvpnInstance(Some("mgmt"), <<e>>) : e \in EvpnWellFormedEntries}
    \cup {EvpnInstance(None, <<>>), EvpnInstance(None, <<EvpnEntry(1, None)>>),
          [name |-> Some("default"), protocols |-> None]}

InitEvpn ==
    /\ router_info = OneRouterInfo
    /\ pc = "extract"
    /\ level = LOGGING_LEVEL_WARNING
    /\ level_at_call = LOGGING_LEVEL_WARNING
    /\ sessions = <<ClosedSession(EVPN_PATH)>>
    /\ gnmi_path = EVPN_PATH
    /\ \E n \in 0..MaxInstances : info \in [1..n -> EvpnNetworkInstances]
    /\ result = Some(Envelope(info))
    /\ self = Device1(<<>>, <<>>)
    /\ srl_devices = <<>>
    /\ joined = 0
    /\ rows = <<>>
    /\ table = None

NextEvpn == get_bgp_evpn_info

SpecEvpn == InitEvpn /\ [][NextEvpn]_vars

\* --- the VPN extraction (lines 153-157) and the join after it

VpnNetworkInstances ==
    {VpnInstance(Some("default"), es) :
        es \in SeqsUpTo(VpnWellFormedEntries \cup VpnDefectiveEntries, MaxVpnEntries)}
    \cup {VpnInstance(Some("mgmt"), <<e>>) : e \in VpnWellFormedEntries}
    \cup {VpnInstance(None, <<VpnEntry(Some(1), None, None)>>),
          [name |-> Some("default"), protocols |-> None]}

EvpnRecord(name, id) ==
    BgpEvpn(name, id, "enable", "vxlan1.1", 100 + id, 8,
            IF id = 1 THEN NO_STATE ELSE "up")

InitVpn ==
    /\ router_info = OneRouterInfo
    /\ pc = "extract"
    /\ level = LOGGING_LEVEL_WARNING
    /\ level_at_call = LOGGING_LEVEL_WARNING
    /\ sessions = <<ClosedSession(EVPN_PATH), ClosedSession(VPN_PATH)>>
    /\ gnmi_path = VPN_PATH
    /\ \E n \in 0..MaxVpnInstances : info \in [1..n -> VpnNetworkInstances]
    /\ result = Some(Envelope(info))
    /\ \E bgp_evpn \in {<<EvpnRecord("default", 1)>>,
                        <<EvpnRecord("mgmt", 2), EvpnRecord("default", 1)>>} :
           self = Device1(bgp_evpn, <<>>)
    /\ srl_devices = <<>>
    /\ joined = 0
    /\ rows = <<>>
    /\ table = None

NextVpn == get_bgp_vpn_info \/ StartJoin \/ Join \/ Report

SpecVpn == InitVpn /\ [][NextVpn]_vars

\* --- the join (lines 201-209)

InstanceNames == {"default", "mgmt", "vrf1"}

EvpnRecords == {EvpnRecord(name, id) : name \in InstanceNames, id \in {1, 2}}

VpnRecords ==
    {BgpVpn(name, 1, rd, Some("target:65000:1"), Some("target:65000:2")) :
        name \in InstanceNames, rd \in {None, Some("10.0.0.1:1")}}

\* a VPN answer that get_bgp_vpn_info turns into the given records
VpnInfoOf(bgp_vpn) ==
    [k \in 1..Len(bgp_vpn) |->
        VpnInstance(Some(bgp_vpn[k].network_instance),
            <<VpnEntry(Some(bgp_vpn[k].id), Some([rd |-> bgp_vpn[k].rd]),
                       Some([export_rt |-> bgp_vpn[k].export_rt,
                             import_rt |-> bgp_vpn[k].import_rt]))>>)]

InitJoin ==
    /\ router_info = OneRouterInfo
    /\ pc = "join"
    /\ level = LOGGING_LEVEL_WARNING
    /\ level_at_call = LOGGING_LEVEL_WARNING
    /\ sessions = <<ClosedSession(EVPN_PATH), ClosedSession(VPN_PATH)>>
    /\ gnmi_path = VPN_PATH
    /\ \E m, n \in 0..MaxRecords :
           \E bgp_evpn \in [1..m -> EvpnRecords], bgp_vpn \in [1..n -> VpnRecords] :
               /\ self = Device1(bgp_evpn, bgp_vpn)
               /\ info = VpnInfoOf(bgp_vpn)
    /\ result = Some(Envelope(info))
    /\ srl_devices = <<self>>
    /\ joined = 0
    /\ rows = <<>>
    /\ table = None

NextJoin == Join \/ Report

SpecJoin == InitJoin /\ [][NextJoin]_vars

----------------------------------------------------------------------------
(* Properties *)

DeviceOf(k) == (k + 1) \div 2       \* the device of the k-th connection attempt

PathOf(k) == IF k % 2 = 1 THEN EVPN_PATH ELSE VPN_PATH

Terminated == pc \in {"done", "aborted"}

FetchFailed(s) == s.status = "refused" \/ s.get = "error"

RowsFor(rs, router) == SelectSeq(rs, LAMBDA row : row.Router = router)

NamesOf(records) == {r.network_instance : r \in Range(records)}

Min(a, b) == IF a <= b THEN a ELSE b

\* the last record of the list that bears the name
LastNamed(records, name) ==
    records[CHOOSE k \in 1..Len(records) :
                /\ records[k].network_instance = name
                /\ \A j \in (k + 1)..Len(records) : records[j].network_instance # name]

\* the bgp-instance entries of a list of network instances, in source order,
\* each with its instance's name
RECURSIVE FlatEvpn(_)
FlatEvpn(network_instances) ==
    IF network_instances = <<>> THEN <<>>
    ELSE LET ni == Head(network_instances)
             es == EvpnBranch(ni)
         IN  [k \in 1..Len(es) |-> [name |-> Val(ni.name), entry |-> es[k]]]
             \o FlatEvpn(Tail(network_instances))

RECURSIVE FlatVpn(_)
FlatVpn(network_instances) ==
    IF network_instances = <<>> THEN <<>>
    ELSE LET ni == Head(network_instances)
             es == VpnBranch(ni)
         IN  [k \in 1..Len(es) |-> [name |-> Val(ni.name), entry |-> es[k]]]
             \o FlatVpn(Tail(network_instances))

EvpnComplete(ni) ==
    /\ ~EvpnBranchRaises(ni)
    /\ Has(ni.name)
    /\ \A b \in Range(EvpnBranch(ni)) :
           /\ Has(b.id) /\ Has(b.admin_state) /\ Has(b.vxlan_interface)
           /\ Has(b.evi) /\ Has(b.ecmp)

VpnComplete(ni) ==
    /\ ~VpnBranchRaises(ni)
    /\ Has(ni.name)
    /\ \A b \in Range(VpnBranch(ni)) : Has(b.id)

\* a required field is missing somewhere in the answer
MissingRequiredField(path, network_instances) ==
    \E ni \in Range(network_instances) :
        IF path = EVPN_PATH
        THEN \/ EvpnBranchRaises(ni)
             \/ \E b \in Range(EvpnBranch(ni)) : EvpnEntryRaises(ni, b)
        ELSE \/ VpnBranchRaises(ni)
             \/ \E b \in Range(VpnBranch(ni)) : VpnEntryRaises(ni, b)

\* the response envelope lacks its notification list, or a notification its
\* update list, or an update its value
Malformed(res) ==
    /\ Has(res)
    /\ \/ ~Has(Val(res).notification)
       \/ \E n \in Range(Val(Val(res).notification)) :
              \/ ~Has(n.update)
              \/ \E u \in Range(Val(n.update)) : ~Has(u.val)

\* C1: when the session or the get of a device fails, the fetch returns an
\* empty sequence, the device contributes no joined row, and every later
\* device of the roster is still polled and its rows are reported.
C1_FailedFetchIsolated ==
    /\ (pc = "extract" /\ sessions # <<>> /\ FetchFailed(sessions[Len(sessions)]))
           => info = <<>>
    /\ Terminated =>
         \A k \in 1..Len(sessions) :
             FetchFailed(sessions[k]) =>
                 /\ RowsFor(rows, router_info.routers[DeviceOf(k)]) = <<>>
                 /\ \A e \in (DeviceOf(k) + 1)..Len(router_info.routers) :
                        /\ e <= Len(srl_devices)
                        /\ Has(table)
                        /\ RowsFor(Val(table), router_info.routers[e])
                               = JoinDevice(srl_devices[e])

\* C2: a required field missing from an instance of one device does not end
\* the run: the run goes on to the other devices and reports their rows.
C2_MissingFieldDoesNotEndRun ==
    /\ ~(pc = "aborted" /\ MissingRequiredField(gnmi_path, info))
    /\ Terminated =>
         /\ Len(srl_devices) = Len(router_info.routers)
         /\ Has(table)

\* C3: the join of a device emits exactly one row for each instance name that
\* occurs in both its EVPN and its VPN records and none for any other name,
\* so at most min(|evpn|, |vpn|) rows.
C3_InnerJoin ==
    \A d \in 1..Len(srl_devices) :
        LET device == srl_devices[d]
            out == RowsFor(rows, device.router)
        IN  IF d <= joined
            THEN /\ {out[n].Network_instance : n \in 1..Len(out)}
                        = NamesOf(device.bgp_evpn) \cap NamesOf(device.bgp_vpn)
                 /\ \A m, n \in 1..Len(out) :
                        out[m].Network_instance = out[n].Network_instance => m = n
                 /\ Len(out) <= Min(Len(device.bgp_evpn), Len(device.bgp_vpn))
            ELSE out = <<>>

C3_Witness ==
    /\ joined = 1
    /\ NamesOf(srl_devices[1].bgp_evpn) = {"default", "mgmt"}
    /\ NamesOf(srl_devices[1].bgp_vpn) = {"default", "vrf1"}
    /\ Len(rows) = 1
    /\ rows[1].Network_instance = "default"

\* C4: when several records of a device bear the same instance name, the
\* joined row of that name carries the fields of the last of them, on the
\* EVPN side and on the VPN side.
C4_LastRecordWins ==
    \A d \in 1..joined :
        LET device == srl_devices[d]
            out == RowsFor(rows, device.router)
        IN  \A n \in 1..Len(out) :
                /\ out[n].Network_instance
                       \in NamesOf(device.bgp_evpn) \cap NamesOf(device.bgp_vpn)
                /\ LET e == LastNamed(device.bgp_evpn, out[n].Network_instance)
                       v == LastNamed(device.bgp_vpn, out[n].Network_instance)
                   IN  /\ out[n].ID = e.id
                       /\ out[n].EVPN_Admin_state = e.admin_state
                       /\ out[n].VXLAN_interface = e.vxlan_interface
                       /\ out[n].EVI = e.evi
                       /\ out[n].ECMP = e.ecmp
                       /\ out[n].Oper_state = e.oper_state
                       /\ out[n].RD = v.rd
                       /\ out[n].import_rt = v.import_rt
                       /\ out[n].export_rt = v.export_rt

C4_Witness ==
    /\ joined = 1
    /\ Len(srl_devices[1].bgp_evpn) = 2
    /\ srl_devices[1].bgp_evpn[1].network_instance
           = srl_devices[1].bgp_evpn[2].network_instance
    /\ srl_devices[1].bgp_evpn[1].id # srl_devices[1].bgp_evpn[2].id
    /\ Len(srl_devices[1].bgp_vpn) = 2
    /\ srl_devices[1].bgp_vpn[1].network_instance
           = srl_devices[1].bgp_vpn[2].network_instance
    /\ srl_devices[1].bgp_vpn[1].rd # srl_devices[1].bgp_vpn[2].rd
    /\ Len(rows) = 1
    /\ rows[1].ID = srl_devices[1].bgp_evpn[2].id
    /\ rows[1].RD = srl_devices[1].bgp_vpn[2].rd

\* C5: when every EVPN entry of the answer has its required fields, the
\* extraction succeeds and yields one record per entry in source order, the
\* six required fields copied and operState the entry's oper-state, or
\* "no state" when the entry has none.
C5_OperStateDefault ==
    (\/ pc = "call" /\ gnmi_path = VPN_PATH
     \/ pc = "aborted" /\ gnmi_path = EVPN_PATH)
    => ((\A ni \in Range(info) : EvpnComplete(ni))
        => /\ pc = "call"
           /\ LET flat == FlatEvpn(info)
                  recs == self.bgp_evpn
              IN  /\ Len(recs) = Len(flat)
                  /\ \A k \in 1..Len(flat) :
                         /\ recs[k].network_instance = flat[k].name
                         /\ recs[k].id = Val(flat[k].entry.id)
                         /\ recs[k].admin_state = Val(flat[k].entry.admin_state)
                         /\ recs[k].vxlan_interface = Val(flat[k].entry.vxlan_interface)
                         /\ recs[k].evi = Val(flat[k].entry.evi)
                         /\ recs[k].ecmp = Val(flat[k].entry.ecmp)
                         /\ recs[k].oper_state
                                = IF Has(flat[k].entry.oper_state)
                                  THEN Val(flat[k].entry.oper_state)
                                  ELSE "no state")

C5_Witness ==
    /\ pc = "call"
    /\ gnmi_path = VPN_PATH
    /\ Len(info) = 2
    /\ \A ni \in Range(info) : EvpnComplete(ni)
    /\ Len(self.bgp_evpn) = 2
    /\ ~Has(FlatEvpn(info)[1].entry.oper_state)
    /\ self.bgp_evpn[1].oper_state = "no state"
    /\ Has(FlatEvpn(info)[2].entry.oper_state)
    /\ self.bgp_evpn[2].oper_state = "up"

\* C6: when every VPN entry of the answer has instance name and id, the
\* extraction succeeds and each of route-distinguisher, export route-targets
\* and import route-targets is null when its field or its container is
\* absent and the stored value otherwise, each on its own; the joined row of
\* the instance carries these values.
C6_NullableVpnFields ==
    (\/ pc \in {"poll", "join", "done"} /\ Len(srl_devices) = 1
     \/ pc = "aborted" /\ gnmi_path = VPN_PATH)
    => ((\A ni \in Range(info) : VpnComplete(ni))
        => /\ pc # "aborted"
           /\ LET flat == FlatVpn(info)
                  recs == srl_devices[1].bgp_vpn
                  rdOf(b) ==
                      IF ~Has(b.route_distinguisher) THEN None
                      ELSE IF ~Has(Val(b.route_distinguisher).rd) THEN None
                      ELSE Some(Val(Val(b.route_distinguisher).rd))
                  exportOf(b) ==
                      IF ~Has(b.route_target) THEN None
                      ELSE IF ~Has(Val(b.route_target).export_rt) THEN None
                      ELSE Some(Val(Val(b.route_target).export_rt))
                  importOf(b) ==
                      IF ~Has(b.route_target) THEN None
                      ELSE IF ~Has(Val(b.route_target).import_rt) THEN None
                      ELSE Some(Val(Val(b.route_target).import_rt))
              IN  /\ Len(recs) = Len(flat)
                  /\ \A k \in 1..Len(flat) :
                         /\ recs[k].network_instance = flat[k].name
                         /\ recs[k].id = Val(flat[k].entry.id)
                         /\ recs[k].rd = rdOf(flat[k].entry)
                         /\ recs[k].export_rt = exportOf(flat[k].entry)
                         /\ recs[k].import_rt = importOf(flat[k].entry)
                  /\ \A n \in 1..Len(rows) :
                         /\ \E k \in 1..Len(flat) : flat[k].name = rows[n].Network_instance
                         /\ LET last == CHOOSE k \in 1..Len(flat) :
                                    /\ flat[k].name = rows[n].Network_instance
                                    /\ \A j \in (k + 1)..Len(flat) :
                                           flat[j].name # rows[n].Network_instance
                            IN  /\ rows[n].RD = rdOf(flat[last].entry)
                                /\ rows[n].export_rt = exportOf(flat[last].entry)
                                /\ rows[n].import_rt = importOf(flat[last].entry))

C6_Witness ==
    /\ pc = "done"
    /\ Len(info) = 1
    /\ VpnComplete(info[1])
    /\ Len(VpnBranch(info[1])) = 1
    /\ ~Has(VpnBranch(info[1])[1].route_distinguisher)
    /\ Has(VpnBranch(info[1])[1].route_target)
    /\ Has(table)
    /\ Len(Val(table)) = 1
    /\ Val(table)[1].RD = None
    /\ Val(table)[1].export_rt = Some("target:65000:1")
    /\ Val(table)[1].import_rt = Some("target:65000:2")

\* C7: every session is opened with the device's own credentials and the
\* TLS-verification policy the roster configures for it, one session per
\* fetch call.
C7_SessionsUseDevicePolicy ==
    \A k \in 1..Len(sessions) :
        /\ sessions[k].router = router_info.routers[DeviceOf(k)]
        /\ sessions[k].port = router_info.gnmi_port
        /\ sessions[k].username = router_info.username
        /\ sessions[k].password = router_info.password
        /\ sessions[k].path = PathOf(k)
        /\ sessions[k].skip_verify = router_info.skip_verify

\* C8: a malformed response envelope degrades the query to zero records: the
\* fetch returns an empty sequence, also when well-formed updates precede
\* the malformed part.
C8_MalformedEnvelopeGivesNoRecords ==
    (pc = "extract" /\ Malformed(result)) => info = <<>>

\* C9: during the session and the get the transport library's logging level
\* is CRITICAL, and after the fetch call it is the level it had immediately
\* before the call.
C9_LevelRestored ==
    /\ pc \in {"open", "get", "exit"} => level = 50
    /\ pc \in {"decode", "extract"} => level = level_at_call

\* C10: devices are polled one at a time in roster order, the EVPN query of a
\* device before its VPN query; no two sessions are open at once; the VPN
\* session of a device is opened only after the EVPN answer is decoded into
\* records; the join starts only after both queries of every device are
\* through.
C10_Sequential ==
    /\ Cardinality({k \in 1..Len(sessions) : sessions[k].status = "open"}) <= 1
    /\ \A k \in 1..Len(sessions) :
           /\ DeviceOf(k) <= Len(router_info.routers)
           /\ sessions[k].router = router_info.routers[DeviceOf(k)]
           /\ sessions[k].path = PathOf(k)
           /\ sessions[k].status = "open" => (k = Len(sessions) /\ pc \in {"get", "exit"})
    /\ \A d \in 1..Len(srl_devices) :
           /\ srl_devices[d].router = router_info.routers[d]
           /\ Len(sessions) >= 2 * d
    /\ (sessions # <<>> /\ sessions[Len(sessions)].path = VPN_PATH
            /\ Len(srl_devices) < DeviceOf(Len(sessions)) /\ pc # "aborted")
           => (gnmi_path = VPN_PATH /\ self.router = sessions[Len(sessions)].router)
    /\ (pc \in {"join", "done"} \/ joined > 0) =>
           /\ Len(srl_devices) = Len(router_info.routers)
           /\ Len(sessions) = 2 * Len(router_info.routers)
           /\ \A k \in 1..Len(sessions) : sessions[k].status # "open"
    /\ joined <= Len(srl_devices)

C10_Witness ==
    /\ pc = "join"
    /\ joined = 1
    /\ Len(router_info.routers) = 2
    /\ Len(sessions) = 4
    /\ \A k \in 1..4 : sessions[k].status = "closed"
    /\ Len(rows) > 0

====
